---- MODULE Spec2Model ----
(***************************************************************************)
(* The format-report emission layer of rustfmt-lib (emitter.rs):           *)
(* emit_format_report, write_file (original-text resolution followed by    *)
(* the emitter call) and create_emitter.                                   *)
(***************************************************************************)
EXTENDS Naturals, Sequences, FiniteSets, TLC

\* Largest number of files a report holds in the model.
MaxFiles == 2

(***************************************************************************)
(* Value domains                                                           *)
(***************************************************************************)
None == "None"
Stdin == "Stdin"
Paths == {"a.rs", "b.rs"}
\* FileName: Real(path) is written as the path, Stdin as Stdin.
FileNames == Paths \cup {Stdin}
\* Texts: "lf" is a line-feed-normalised text, "crlf" the same text with
\* its original line endings.
Texts == {"lf", "crlf"}
\* The snippets the engine and the source map cache are line-feed-normalised.
Snippets == {"lf"}
NewlineStyles == {"Auto", "Windows"}
ReadErr == "ReadErr"

EmitModes == {"Files", "Stdout", "Checkstyle", "Json", "ModifiedLines", "Diff"}
Colors == {"Always", "Never", "Auto"}
Verbosities == {"Normal", "Verbose", "Quiet"}

EmitterConfig == [emit_mode : EmitModes, color : Colors,
                  verbosity : Verbosities, print_filename : BOOLEAN]

DefaultEmitterConfig ==
    [emit_mode |-> "Files", color |-> "Auto",
     verbosity |-> "Normal", print_filename |-> FALSE]

\* The configurations a run of emit_format_report is explored with: every
\* mode, the other fields at their defaults.
RunConfigs == {[DefaultEmitterConfig EXCEPT !.emit_mode = m] : m \in EmitModes}

\* The "configuration" of an emitter built by Default::default().
NoConfig == [emit_mode |-> None, color |-> None,
             verbosity |-> None, print_filename |-> FALSE]

\* FormatResult: formatted_text(), original_text() (an Option), newline_style().
FormatResults == [formatted_text : Texts,
                  original_text : Snippets \cup {None},
                  newline_style : NewlineStyles]

ReportEntries == [filename : FileNames, format_result : FormatResults]

\* The entries of a report have pairwise different file names.
DistinctNames(s) ==
    \A i, j \in 1..Len(s) : i # j => s[i].filename # s[j].filename

Reports ==
    {s \in UNION {[1..n -> ReportEntries] : n \in 0..MaxFiles} : DistinctNames(s)}

\* The file system: the text of each path, or ReadErr when reading it fails.
Disks == [Paths -> Texts \cup {ReadErr}]

\* Option<&ParseSess>: present says Some; snippets is what
\* get_original_snippet returns for each file name.
NoSess == [present |-> FALSE, snippets |-> [f \in FileNames |-> None]]
\* What the source map may hold for a file: the snippet the engine cached, or
\* another line-feed-normalised text.
SourceMapSnippets == Snippets \cup {"lf-map"}
Sessions == {NoSess} \cup
    {[present |-> TRUE, snippets |-> s] :
        s \in [FileNames -> SourceMapSnippets \cup {None}]}

(***************************************************************************)
(* Result values                                                           *)
(***************************************************************************)
IoError == "IoError"
JsonError == "JsonError"
InvalidInputForFiles == "InvalidInputForFiles"
EmitterErrors == {IoError, JsonError, InvalidInputForFiles}

Ok(hd) == [tag |-> "Ok", has_diff |-> hd, err |-> None]
Err(e) == [tag |-> "Err", has_diff |-> FALSE, err |-> e]
NoResult == [tag |-> None, has_diff |-> FALSE, err |-> None]

NoEmitter == [kind |-> None, seeded |-> FALSE, config |-> NoConfig, id |-> 0]
NoView == [filename |-> None, original_text |-> None, formatted_text |-> None]

(***************************************************************************)
(* EmitMode::from_str: a &str is the sequence of its characters.           *)
(***************************************************************************)
W_files == <<"f", "i", "l", "e", "s">>
W_stdout == <<"s", "t", "d", "o", "u", "t">>
W_checkstyle == <<"c", "h", "e", "c", "k", "s", "t", "y", "l", "e">>
W_json == <<"j", "s", "o", "n">>
W_diff == <<"d", "i", "f", "f">>
W_modifiedlines == <<"m", "o", "d", "i", "f", "i", "e", "d", "l", "i", "n", "e", "s">>
W_bogus == <<"b", "o", "g", "u", "s">>
W_coverage == <<"c", "o", "v", "e", "r", "a", "g", "e">>
W_stdin == <<"s", "t", "d", "i", "n">>
W_xml == <<"x", "m", "l">>
W_empty == <<>>
Words == {W_files, W_stdout, W_checkstyle, W_json, W_diff, W_modifiedlines, W_bogus, W_coverage,
          W_stdin, W_xml, W_empty}

\* char::to_ascii_uppercase
ToUpper(c) ==
    CASE c = "a" -> "A"
      [] c = "b" -> "B"
      [] c = "c" -> "C"
      [] c = "d" -> "D"
      [] c = "e" -> "E"
      [] c = "f" -> "F"
      [] c = "g" -> "G"
      [] c = "h" -> "H"
      [] c = "i" -> "I"
      [] c = "j" -> "J"
      [] c = "k" -> "K"
      [] c = "l" -> "L"
      [] c = "m" -> "M"
      [] c = "n" -> "N"
      [] c = "o" -> "O"
      [] c = "p" -> "P"
      [] c = "q" -> "Q"
      [] c = "r" -> "R"
      [] c = "s" -> "S"
      [] c = "t" -> "T"
      [] c = "u" -> "U"
      [] c = "v" -> "V"
      [] c = "w" -> "W"
      [] c = "x" -> "X"
      [] c = "y" -> "Y"
      [] c = "z" -> "Z"
      [] OTHER -> c

UpperAll(w) == [i \in 1..Len(w) |-> ToUpper(w[i])]
UpperFirst(w) == [i \in 1..Len(w) |-> IF i = 1 THEN ToUpper(w[i]) ELSE w[i]]
DropLast(w) == [i \in 1..(Len(w) - 1) |-> w[i]]

\* The spellings of a word a command line is tried with.
Variants(w) ==
    {w, UpperFirst(w), UpperAll(w), w \o <<" ">>, <<" ">> \o w} \cup
    (IF w = <<>> THEN {} ELSE {DropLast(w)})

Tokens == UNION {Variants(w) : w \in Words}

OkMode(m) == [tag |-> "Ok", mode |-> m, message |-> <<>>]
ErrMessage(t) == [tag |-> "Err", mode |-> None, message |-> t]
NoParse == [tag |-> None, mode |-> None, message |-> <<>>]

\* The back quote character, which a string of this module cannot hold.
BackQuote == "backquote"

\* format!("unknown emit mode `{}`", s)
UnknownPrefix == <<"u", "n", "k", "n", "o", "w", "n", " ", "e", "m", "i", "t", " ", "m", "o", "d", "e", " ", BackQuote>>
UnknownSuffix == <<BackQuote>>
UnknownEmitMode(s) == UnknownPrefix \o s \o UnknownSuffix

\* Mutant: the match ignores the case of the letters.
from_str_IgnoreCase(s) ==
    CASE UpperAll(s) = UpperAll(W_files) -> OkMode("Files")
      [] UpperAll(s) = UpperAll(W_stdout) -> OkMode("Stdout")
      [] UpperAll(s) = UpperAll(W_checkstyle) -> OkMode("Checkstyle")
      [] UpperAll(s) = UpperAll(W_json) -> OkMode("Json")
      [] OTHER -> ErrMessage(UnknownEmitMode(s))

from_str(s) ==
    CASE s = W_files -> OkMode("Files")
      [] s = W_stdout -> OkMode("Stdout")
      [] s = W_checkstyle -> OkMode("Checkstyle")
      [] s = W_json -> OkMode("Json")
      [] OTHER -> ErrMessage(UnknownEmitMode(s))

VARIABLES
    report,        \* format_report: the (filename, format_result) pairs
    config,        \* the EmitterConfig argument
    parse_sess,    \* the parse session a direct caller of write_file holds
    disk,          \* the file system
    pc,            \* position of the running function
    idx,           \* position of the for loop in the report
    emitter,       \* the Box<dyn Emitter> of this run
    factoryCalls,  \* number of create_emitter calls so far
    has_diff,      \* the local accumulator of emit_format_report
    calls,         \* every call made on an emitter, in order, with its result
    resolved,      \* the original-text resolutions made, in order
    diskReads,     \* the fs::read_to_string calls made, in order, with what each returned
    diskWrites,    \* the files the emitter has written, in order
    result,        \* the value the function returned
    token,         \* the text handed to EmitMode::from_str, as its characters
    parsed         \* what EmitMode::from_str returned

vars == <<report, config, parse_sess, disk, pc, idx, emitter, factoryCalls,
          has_diff, calls, resolved, diskReads, diskWrites, result, token,
          parsed>>

\* The state of a from_str call, which the emission functions leave alone.
cliVars == <<token, parsed>>

(***************************************************************************)
(* create_emitter                                                          *)
(***************************************************************************)
Seeded(kind, emitter_config) ==
    [kind |-> kind, seeded |-> TRUE, config |-> emitter_config]
Defaulted(kind) ==
    [kind |-> kind, seeded |-> FALSE, config |-> NoConfig]

\* Mutant: the Json arm builds the Checkstyle emitter.
create_emitter_JsonAsCheckstyle(emitter_config) ==
    CASE emitter_config.emit_mode = "Files" ->
             Seeded("FilesEmitter", emitter_config)
      [] emitter_config.emit_mode = "Stdout" ->
             Seeded("StdoutEmitter", emitter_config)
      [] emitter_config.emit_mode \in {"Json", "Checkstyle"} ->
             Defaulted("CheckstyleEmitter")
      [] emitter_config.emit_mode = "ModifiedLines" ->
             Defaulted("ModifiedLinesEmitter")
      [] emitter_config.emit_mode = "Diff" ->
             Seeded("DiffEmitter", emitter_config)

create_emitter(emitter_config) ==
    CASE emitter_config.emit_mode = "Files" ->
             Seeded("FilesEmitter", emitter_config)
      [] emitter_config.emit_mode = "Stdout" ->
             Seeded("StdoutEmitter", emitter_config)
      [] emitter_config.emit_mode = "Json" ->
             Defaulted("JsonEmitter")
      [] emitter_config.emit_mode = "ModifiedLines" ->
             Defaulted("ModifiedLinesEmitter")
      [] emitter_config.emit_mode = "Checkstyle" ->
             Defaulted("CheckstyleEmitter")
      [] emitter_config.emit_mode = "Diff" ->
             Seeded("DiffEmitter", emitter_config)

\* The n-th box the factory allocated.
Boxed(e, n) ==
    [kind |-> e.kind, seeded |-> e.seeded, config |-> e.config, id |-> n]

(***************************************************************************)
(* The Emitter trait and its implementations, as far as the caller sees    *)
(* them: the results a call can have.                                      *)
(***************************************************************************)
Panic == [tag |-> "Panic", has_diff |-> FALSE, err |-> None]
Returns == {Ok(TRUE), Ok(FALSE), Panic} \cup {Err(e) : e \in EmitterErrors}

emit_header(em) == {Ok(FALSE), Err(IoError)}
emit_footer(em) == {Ok(FALSE), Err(IoError)}

HasDiffs(view) ==
    IF view.original_text = view.formatted_text THEN {FALSE} ELSE BOOLEAN

emit_formatted_file(em, view) ==
    IF em.kind = "FilesEmitter" /\ view.filename = Stdin
    THEN {Err(InvalidInputForFiles)}
    ELSE {Ok(hd) : hd \in HasDiffs(view)} \cup {Err(IoError)}
         \cup (IF em.kind = "JsonEmitter" THEN {Err(JsonError)} ELSE {})

\* FilesEmitter writes the formatted text over the file when it differs.
WritesFile(em, view, ret) ==
    /\ em.kind = "FilesEmitter"
    /\ ret.tag = "Ok"
    /\ view.original_text # view.formatted_text

Call(op, em, i, view, ret) ==
    [op |-> op, emitter |-> em.id, idx |-> i, view |-> view, res |-> ret]

(***************************************************************************)
(* write_file: the original text, then the emitter call                    *)
(***************************************************************************)
ensure_real_path(filename) ==
    IF filename # Stdin
    THEN [tag |-> "Path", path |-> filename]
    ELSE [tag |-> "Panic", path |-> None]

Resolution(tag, text, reads, via) ==
    [tag |-> tag, text |-> text, reads |-> reads, via |-> via]

\* Mutant: a failed read yields an empty original text (unwrap_or_default).
ReadFromDisk_ErrAsEmpty(filename, dsk, via) ==
    LET p == ensure_real_path(filename) IN
    IF p.tag = "Panic" THEN Resolution("Panic", None, <<>>, via)
    ELSE IF dsk[p.path] = ReadErr
         THEN Resolution("Ok", None, <<[path |-> p.path, text |-> ReadErr]>>, via)
         ELSE Resolution("Ok", dsk[p.path],
                         <<[path |-> p.path, text |-> dsk[p.path]]>>, via)

\* Mutant: the file is read a second time after the first read.
ReadFromDisk_Twice(filename, dsk, via) ==
    LET p == ensure_real_path(filename) IN
    IF p.tag = "Panic" THEN Resolution("Panic", None, <<>>, via)
    ELSE IF dsk[p.path] = ReadErr
         THEN Resolution("Err", None, <<[path |-> p.path, text |-> ReadErr]>>, via)
         ELSE Resolution("Ok", dsk[p.path],
                         <<[path |-> p.path, text |-> dsk[p.path]],
                           [path |-> p.path, text |-> dsk[p.path]]>>, via)

\* Rc::new(fs::read_to_string(ensure_real_path(filename))?)
ReadFromDisk(filename, dsk, via) ==
    LET p == ensure_real_path(filename) IN
    IF p.tag = "Panic" THEN Resolution("Panic", None, <<>>, via)
    ELSE IF dsk[p.path] = ReadErr
         THEN Resolution("Err", None, <<[path |-> p.path, text |-> ReadErr]>>, via)
         ELSE Resolution("Ok", dsk[p.path],
                         <<[path |-> p.path, text |-> dsk[p.path]]>>, via)

\* parse_sess.and_then(|sess| sess.get_original_snippet(filename))
get_original_snippet(sess, filename) ==
    IF sess.present THEN sess.snippets[filename] ELSE None

\* Mutant: the cached snippet is taken before the newline_style test.
original_text_SnippetFirst(sess, filename, formatted_result, dsk) ==
    IF formatted_result.original_text # None
    THEN Resolution("Ok", formatted_result.original_text, <<>>, "snippet")
    ELSE IF formatted_result.newline_style # "Auto" /\ filename # Stdin
         THEN ReadFromDisk(filename, dsk, "override")
         ELSE LET ori == get_original_snippet(sess, filename) IN
              IF ori # None
              THEN Resolution("Ok", ori, <<>>, "source_map")
              ELSE ReadFromDisk(filename, dsk, "fallback")

\* Mutant: the newline_style test forgets `*filename != FileName::Stdin`.
original_text_NoStdinTest(sess, filename, formatted_result, dsk) ==
    IF formatted_result.newline_style # "Auto"
    THEN ReadFromDisk(filename, dsk, "override")
    ELSE IF formatted_result.original_text # None
         THEN Resolution("Ok", formatted_result.original_text, <<>>, "snippet")
         ELSE LET ori == get_original_snippet(sess, filename) IN
              IF ori # None
              THEN Resolution("Ok", ori, <<>>, "source_map")
              ELSE ReadFromDisk(filename, dsk, "fallback")

\* Mutant: the parse session is asked before the cached snippet.
original_text_SourceMapFirst(sess, filename, formatted_result, dsk) ==
    IF formatted_result.newline_style # "Auto" /\ filename # Stdin
    THEN ReadFromDisk(filename, dsk, "override")
    ELSE LET ori == get_original_snippet(sess, filename) IN
         IF ori # None
         THEN Resolution("Ok", ori, <<>>, "source_map")
         ELSE IF formatted_result.original_text # None
              THEN Resolution("Ok", formatted_result.original_text, <<>>, "snippet")
              ELSE ReadFromDisk(filename, dsk, "fallback")

original_text(sess, filename, formatted_result, dsk) ==
    IF formatted_result.newline_style # "Auto" /\ filename # Stdin
    THEN ReadFromDisk(filename, dsk, "override")
    ELSE IF formatted_result.original_text # None
         THEN Resolution("Ok", formatted_result.original_text, <<>>, "snippet")
         ELSE LET ori == get_original_snippet(sess, filename) IN
              IF ori # None
              THEN Resolution("Ok", ori, <<>>, "source_map")
              ELSE ReadFromDisk(filename, dsk, "fallback")

\* Mutant: the two texts of the view are taken for each other.
FormattedFile_Swapped(filename, ot, formatted_result) ==
    [filename |-> filename,
     original_text |-> formatted_result.formatted_text,
     formatted_text |-> ot]

FormattedFile(filename, ot, formatted_result) ==
    [filename |-> filename,
     original_text |-> ot,
     formatted_text |-> formatted_result.formatted_text]

\* The call write_file(sess, filename, formatted_result, out, em) for entry
\* i, returning ret.
write_file(sess, filename, formatted_result, em, i, ret) ==
    LET ot == original_text(sess, filename, formatted_result, disk)
        view == FormattedFile(filename, ot.text, formatted_result)
    IN  /\ resolved' = Append(resolved,
               [idx |-> i, filename |-> filename, tag |-> ot.tag,
                text |-> ot.text, via |-> ot.via])
        /\ diskReads' = diskReads \o ot.reads
        /\ IF ot.tag = "Panic"
           THEN /\ ret = Panic
                /\ UNCHANGED <<calls, disk, diskWrites>>
           ELSE IF ot.tag = "Err"
           THEN /\ ret = Err(IoError)
                /\ UNCHANGED <<calls, disk, diskWrites>>
           ELSE /\ ret \in emit_formatted_file(em, view)
                /\ calls' = Append(calls, Call("emit_formatted_file", em, i, view, ret))
                /\ IF WritesFile(em, view, ret)
                   THEN /\ disk' = [disk EXCEPT ![filename] = view.formatted_text]
                        /\ diskWrites' = Append(diskWrites, filename)
                   ELSE UNCHANGED <<disk, diskWrites>>

(***************************************************************************)
(* emit_format_report                                                      *)
(***************************************************************************)
\* Mutant: an Err is dropped and the function goes on.
QuestionMark_Ignored(ret) == FALSE

\* The ? operator: an Err returns from the function at once.
QuestionMark(ret) == ret.tag = "Err"

\* Mutant: has_diff = r
OrAssign_Overwrite(acc, r) == r

\* has_diff |= r
OrAssign(acc, r) == acc \/ r

\* Mutant: the loop steps over a pair.
NextEntry_Skip(i) == i + 2

\* The for loop goes to the next pair of the report.
NextEntry(i) == i + 1

\* Mutant: each file gets an emitter of its own.
LoopEmitter_Fresh == Boxed(create_emitter(config), factoryCalls + idx)

\* Mutant: the loop passes a parse session whose source map holds every file.
LoopSession_Some ==
    [present |-> TRUE, snippets |-> [f \in FileNames |-> "lf-map"]]

\* The arguments the loop passes to write_file: no parse session, and the
\* run's emitter.
LoopSession == NoSess
LoopEmitter == emitter

Init ==
    /\ report \in Reports
    /\ config \in RunConfigs
    /\ parse_sess = NoSess
    /\ disk \in Disks
    /\ pc = "start"
    /\ idx = 0
    /\ emitter = NoEmitter
    /\ factoryCalls = 0
    /\ has_diff = FALSE
    /\ calls = <<>>
    /\ resolved = <<>>
    /\ diskReads = <<>>
    /\ diskWrites = <<>>
    /\ result = NoResult
    /\ token = W_empty
    /\ parsed = NoParse

\* Mutant: the header is left out when the report is empty.
CreateEmitter_HeaderOnlyWithFiles ==
    /\ pc = "start"
    /\ emitter' = Boxed(create_emitter(config), factoryCalls + 1)
    /\ factoryCalls' = factoryCalls + 1
    /\ has_diff' = FALSE
    /\ IF Len(report) = 0
       THEN pc' = "loop" /\ idx' = 1
       ELSE pc' = "header" /\ UNCHANGED idx
    /\ UNCHANGED <<report, config, parse_sess, disk, calls, resolved,
                   diskReads, diskWrites, result>>
    /\ UNCHANGED cliVars

\* let mut emitter = create_emitter(config); let mut has_diff = false;
CreateEmitter ==
    /\ pc = "start"
    /\ emitter' = Boxed(create_emitter(config), factoryCalls + 1)
    /\ factoryCalls' = factoryCalls + 1
    /\ has_diff' = FALSE
    /\ pc' = "header"
    /\ UNCHANGED <<report, config, parse_sess, disk, idx, calls, resolved,
                   diskReads, diskWrites, result>>
    /\ UNCHANGED cliVars

\* emitter.emit_header(out)?;
EmitHeader ==
    /\ pc = "header"
    /\ \E ret \in emit_header(emitter) :
          /\ calls' = Append(calls, Call("emit_header", emitter, 0, NoView, ret))
          /\ IF QuestionMark(ret)
             THEN pc' = "failed" /\ result' = ret /\ UNCHANGED idx
             ELSE pc' = "loop" /\ idx' = 1 /\ UNCHANGED result
    /\ UNCHANGED <<report, config, parse_sess, disk, emitter, factoryCalls,
                   has_diff, resolved, diskReads, diskWrites>>
    /\ UNCHANGED cliVars

\* One turn of the for loop:
\* has_diff |= write_file(None, filename, &format_result, out, &mut *emitter)?.has_diff;
EmitFile ==
    /\ pc = "loop"
    /\ idx <= Len(report)
    /\ \E ret \in Returns :
          /\ write_file(LoopSession, report[idx].filename,
                        report[idx].format_result, LoopEmitter, idx, ret)
          /\ IF ret.tag = "Panic"
             THEN pc' = "panicked" /\ UNCHANGED <<has_diff, idx, result>>
             ELSE IF QuestionMark(ret)
             THEN pc' = "failed" /\ result' = ret /\ UNCHANGED <<has_diff, idx>>
             ELSE /\ has_diff' = OrAssign(has_diff, ret.has_diff)
                  /\ idx' = NextEntry(idx)
                  /\ UNCHANGED <<pc, result>>
    /\ UNCHANGED <<report, config, parse_sess, emitter, factoryCalls>>
    /\ UNCHANGED cliVars

\* Mutant: the function returns without the footer.
EmitFooter_Missing ==
    /\ pc = "loop"
    /\ idx > Len(report)
    /\ pc' = "done"
    /\ result' = Ok(has_diff)
    /\ UNCHANGED <<report, config, parse_sess, disk, idx, emitter, factoryCalls,
                   has_diff, calls, resolved, diskReads, diskWrites>>
    /\ UNCHANGED cliVars

\* emitter.emit_footer(out)?; Ok(has_diff)
EmitFooter ==
    /\ pc = "loop"
    /\ idx > Len(report)
    /\ \E ret \in emit_footer(emitter) :
          /\ calls' = Append(calls, Call("emit_footer", emitter, 0, NoView, ret))
          /\ IF QuestionMark(ret)
             THEN pc' = "failed" /\ result' = ret
             ELSE pc' = "done" /\ result' = Ok(has_diff)
    /\ UNCHANGED <<report, config, parse_sess, disk, idx, emitter, factoryCalls,
                   has_diff, resolved, diskReads, diskWrites>>
    /\ UNCHANGED cliVars

Next == CreateEmitter \/ EmitHeader \/ EmitFile \/ EmitFooter

Spec == Init /\ [][Next]_vars

(***************************************************************************)
(* A direct call of write_file by a caller inside the crate, which holds   *)
(* an emitter and may hold a parse session.                                *)
(***************************************************************************)
InitWriteFile ==
    /\ report \in {s \in Reports : Len(s) = 1}
    /\ config \in RunConfigs
    /\ parse_sess \in Sessions
    /\ disk \in Disks
    /\ pc = "call"
    /\ idx = 1
    /\ emitter = Boxed(create_emitter(config), 1)
    /\ factoryCalls = 1
    /\ has_diff = FALSE
    /\ calls = <<>>
    /\ resolved = <<>>
    /\ diskReads = <<>>
    /\ diskWrites = <<>>
    /\ result = NoResult
    /\ token = W_empty
    /\ parsed = NoParse

WriteFileCall ==
    /\ pc = "call"
    /\ \E ret \in Returns :
          /\ write_file(parse_sess, report[1].filename,
                        report[1].format_result, emitter, 1, ret)
          /\ IF ret.tag = "Panic"
             THEN pc' = "panicked" /\ UNCHANGED result
             ELSE pc' = "returned" /\ result' = ret
    /\ UNCHANGED <<report, config, parse_sess, idx, emitter, factoryCalls,
                   has_diff>>
    /\ UNCHANGED cliVars

NextWriteFile == WriteFileCall

SpecWriteFile == InitWriteFile /\ [][NextWriteFile]_vars

(***************************************************************************)
(* A call of create_emitter alone, over every EmitterConfig.               *)
(***************************************************************************)
InitCreateEmitter ==
    /\ report = <<>>
    /\ config \in EmitterConfig
    /\ parse_sess = NoSess
    /\ disk = [p \in Paths |-> "lf"]
    /\ pc = "factory"
    /\ idx = 0
    /\ emitter = NoEmitter
    /\ factoryCalls = 0
    /\ has_diff = FALSE
    /\ calls = <<>>
    /\ resolved = <<>>
    /\ diskReads = <<>>
    /\ diskWrites = <<>>
    /\ result = NoResult
    /\ token = W_empty
    /\ parsed = NoParse

CreateEmitterCall ==
    /\ pc = "factory"
    /\ emitter' = Boxed(create_emitter(config), factoryCalls + 1)
    /\ factoryCalls' = factoryCalls + 1
    /\ pc' = "made"
    /\ UNCHANGED <<report, config, parse_sess, disk, idx, has_diff, calls,
                   resolved, diskReads, diskWrites, result>>
    /\ UNCHANGED cliVars

NextCreateEmitter == CreateEmitterCall

SpecCreateEmitter == InitCreateEmitter /\ [][NextCreateEmitter]_vars

(***************************************************************************)
(* Properties                                                              *)
(***************************************************************************)
IsEmitFile(c) == c.op = "emit_formatted_file"
EmitCalls == SelectSeq(calls, IsEmitFile)
HeaderIdx == {i \in 1..Len(calls) : calls[i].op = "emit_header"}
FooterIdx == {i \in 1..Len(calls) : calls[i].op = "emit_footer"}
IsPrefix(s, t) == Len(s) <= Len(t) /\ \A i \in 1..Len(s) : s[i] = t[i]
Written == {diskWrites[i] : i \in 1..Len(diskWrites)}

\* C1: the emit_formatted_file calls made so far are the first files of the
\* report, one call per file, in the report's order; when emit_format_report
\* returns Ok they are all the files of the report.
C1_EmitFileInReportOrder ==
    /\ Len(EmitCalls) <= Len(report)
    /\ \A i \in 1..Len(EmitCalls) :
          /\ EmitCalls[i].idx = i
          /\ EmitCalls[i].view.filename = report[i].filename
    /\ pc = "done" => Len(EmitCalls) = Len(report)

\* A run that returned Ok on a report of two files that are not in path order.
C1_Witness ==
    /\ pc = "done"
    /\ Len(report) = 2
    /\ report[1].filename = "b.rs"
    /\ report[2].filename = "a.rs"
    /\ Len(EmitCalls) = 2

\* The OR of the has_diff of the emit_formatted_file calls that returned Ok.
AnyDiff ==
    \E i \in 1..Len(EmitCalls) :
        EmitCalls[i].res.tag = "Ok" /\ EmitCalls[i].res.has_diff

C2_Accumulates ==
    /\ has_diff = AnyDiff
    /\ pc = "start" => ~has_diff
    /\ pc = "done" => result = Ok(AnyDiff)

\* C2: has_diff is at every point the OR of the has_diff results of the files
\* emitted so far, it starts false, no step takes it from true to false, and
\* the value of a run that returned Ok is true iff some emit_formatted_file
\* call returned has_diff = true.
C2_HasDiffIsOr == []C2_Accumulates /\ [][has_diff => has_diff']_vars

\* A run that returned Ok(true) where the first file differed and the second
\* did not.
C2_Witness ==
    /\ pc = "done"
    /\ result = Ok(TRUE)
    /\ Len(EmitCalls) = 2
    /\ EmitCalls[1].res = Ok(TRUE)
    /\ EmitCalls[2].res = Ok(FALSE)

\* The entry a direct call of write_file is made for.
TheFile == report[1].filename
TheResult == report[1].format_result
Returned == pc \in {"returned", "panicked"}

\* C3: for a real path whose format result has a newline_style other than
\* Auto, write_file reads the file exactly once and the original text of the
\* view it hands to the emitter is the text that read returned (the text on
\* disk, unless the emitter has since written the file), whatever the cached
\* snippet and the parse session hold.
C3_OverrideReadsDisk ==
    (Returned /\ TheFile # Stdin /\ TheResult.newline_style # "Auto") =>
        /\ Len(diskReads) = 1
        /\ diskReads[1].path = TheFile
        /\ resolved[1].via = "override"
        /\ \A i \in 1..Len(calls) :
              /\ calls[i].view.original_text = diskReads[1].text
              /\ TheFile \notin Written => calls[i].view.original_text = disk[TheFile]

\* The cached snippet and the source map both hold "lf", the disk holds
\* "crlf", and the emitter was handed "crlf".
C3_Witness ==
    /\ pc = "returned"
    /\ TheFile = "a.rs"
    /\ TheResult.newline_style = "Windows"
    /\ TheResult.original_text = "lf"
    /\ get_original_snippet(parse_sess, TheFile) = "lf"
    /\ disk[TheFile] = "crlf"
    /\ Len(calls) = 1
    /\ calls[1].view.original_text = "crlf"

Stopped == pc \in {"failed", "panicked"}

C5_FailureIsLast ==
    /\ \A i \in 1..Len(calls) :
          calls[i].res.tag = "Err" =>
              /\ i = Len(calls)
              /\ pc = "failed"
              /\ result = calls[i].res
    /\ \A i \in 1..Len(resolved) :
          resolved[i].tag = "Err" =>
              /\ i = Len(resolved)
              /\ pc = "failed"
              /\ result = Err(IoError)
              /\ FooterIdx = {}
              /\ \A j \in 1..Len(EmitCalls) : EmitCalls[j].idx < resolved[i].idx
    /\ pc = "failed" =>
          /\ result.tag = "Err"
          /\ \/ calls[Len(calls)].res.tag = "Err"
             \/ resolved # <<>> /\ resolved[Len(resolved)].tag = "Err"

C5_NothingUndone ==
    /\ IsPrefix(calls, calls')
    /\ IsPrefix(diskWrites, diskWrites')
    /\ \A f \in Written : disk'[f] = disk[f]
    /\ ~Stopped

\* C5: a header, an original-text read or an emit_formatted_file call that
\* fails is the last thing the run does: emit_format_report returns that
\* error, no emitter call (no later file, no footer) follows it, and no step
\* removes an earlier call or changes a file the emitter has written.
C5_FirstFailureAborts == []C5_FailureIsLast /\ [][C5_NothingUndone]_vars

\* The first of two files failed in the emitter: the second was never
\* resolved nor emitted.
C5_Witness ==
    /\ pc = "failed"
    /\ Len(report) = 2
    /\ Len(calls) = 2
    /\ calls[2].op = "emit_formatted_file"
    /\ calls[2].res.tag = "Err"
    /\ Len(resolved) = 1

\* C6: emit_header is called at most once, it is the first call made on the
\* emitter and every run that got past it has made it exactly once;
\* emit_footer is called at most once, only after an emit_formatted_file call
\* for every file of the report, and it is the last call; a run that returned
\* Ok has made it.
C6_HeaderFirstFooterLast ==
    /\ Cardinality(HeaderIdx) <= 1
    /\ calls # <<>> => HeaderIdx = {1}
    /\ pc \notin {"start", "header"} => HeaderIdx = {1}
    /\ Cardinality(FooterIdx) <= 1
    /\ FooterIdx # {} =>
          /\ FooterIdx = {Len(calls)}
          /\ Len(EmitCalls) = Len(report)
          /\ \A i \in 2..(Len(calls) - 1) : IsEmitFile(calls[i])
    /\ pc = "done" => FooterIdx = {Len(calls)}

\* A run over two files that returned Ok: header, two files, footer.
C6_Witness ==
    /\ pc = "done"
    /\ Len(report) = 2
    /\ Len(calls) = 4
    /\ calls[1].op = "emit_header"
    /\ calls[4].op = "emit_footer"

Ended == pc \in {"done", "failed", "panicked"}

\* C7 as stated: whenever a run on a report with no files has ended, it
\* returned Ok(false) after exactly one header and one footer call.
C7_EmptyReportAlwaysFalse ==
    (Len(report) = 0 /\ Ended) =>
        /\ result = Ok(FALSE)
        /\ Cardinality(HeaderIdx) = 1
        /\ Cardinality(FooterIdx) = 1
        /\ EmitCalls = <<>>
        /\ resolved = <<>>

\* C7, amended: on a report with no files, in every mode, there is no
\* emit_formatted_file call, no original-text resolution and no disk read, and
\* the run never panics; a run that has ended has called emit_header exactly
\* once; if neither emit_header nor emit_footer failed it has called
\* emit_footer exactly once and returned Ok(false); otherwise it returned the
\* error of the failed call, and a failed header is followed by no footer.
C7_EmptyReport ==
    Len(report) = 0 =>
        /\ EmitCalls = <<>>
        /\ resolved = <<>>
        /\ diskReads = <<>>
        /\ pc # "panicked"
        /\ Ended => Cardinality(HeaderIdx) = 1
        /\ pc = "done" =>
              /\ result = Ok(FALSE)
              /\ Len(calls) = 2
              /\ calls[1] = Call("emit_header", emitter, 0, NoView, Ok(FALSE))
              /\ calls[2] = Call("emit_footer", emitter, 0, NoView, Ok(FALSE))
        /\ pc = "failed" =>
              /\ result = calls[Len(calls)].res
              /\ result.tag = "Err"
              /\ calls[1].res.tag = "Err" => Len(calls) = 1

\* An empty report in Checkstyle mode returned Ok(false).
C7_Witness ==
    /\ Len(report) = 0
    /\ config.emit_mode = "Checkstyle"
    /\ pc = "done"
    /\ result = Ok(FALSE)
    /\ Len(calls) = 2

\* C8: an emitter that writes files, given Stdin, returns the
\* InvalidInputForFiles error and writes nothing; a Stdin entry that reaches a
\* disk read makes emit_format_report return that error; no report makes the
\* run panic.
C8_InvalidTargetIsAnError ==
    /\ pc # "panicked"
    /\ \A i \in 1..Len(calls) :
          (calls[i].view.filename = Stdin /\ emitter.kind = "FilesEmitter") =>
              /\ calls[i].res = Err(InvalidInputForFiles)
              /\ Stdin \notin Written
    /\ \A i \in 1..Len(resolved) :
          (resolved[i].filename = Stdin /\ resolved[i].via \in {"override", "fallback"}) =>
              /\ pc = "failed"
              /\ result = Err(InvalidInputForFiles)

\* C9: create_emitter is called once, before the header and before any file
\* is resolved or emitted, and the box it returned is the receiver of every
\* header, emit_formatted_file and footer call of the run.
C9_OneEmitterPerRun ==
    /\ factoryCalls <= 1
    /\ pc = "start" => (factoryCalls = 0 /\ calls = <<>> /\ resolved = <<>>)
    /\ pc # "start" =>
          /\ factoryCalls = 1
          /\ emitter = Boxed(create_emitter(config), 1)
    /\ \A i \in 1..Len(calls) : calls[i].emitter = 1

\* A finished run over two files: four calls, all on the one emitter.
C9_Witness ==
    /\ pc = "done"
    /\ Len(report) = 2
    /\ Len(calls) = 4
    /\ factoryCalls = 1
    /\ \A i \in 1..4 : calls[i].emitter = emitter.id

EmitterKinds == {"FilesEmitter", "StdoutEmitter", "CheckstyleEmitter",
                 "JsonEmitter", "ModifiedLinesEmitter", "DiffEmitter"}

\* No other mode yields the kind of emitter that was made.
OnlyThisMode ==
    \A c \in EmitterConfig :
        c.emit_mode # config.emit_mode => create_emitter(c).kind # emitter.kind

\* C10 as stated: create_emitter returns an emitter for every mode, a
\* different one for different modes, and every emitter it returns holds the
\* EmitterConfig passed in.
C10_EveryEmitterSeeded ==
    pc = "made" =>
        /\ emitter.kind \in EmitterKinds
        /\ OnlyThisMode
        /\ emitter.seeded
        /\ emitter.config = config

\* C10, amended: create_emitter returns an emitter for every mode, a
\* different one for different modes; the emitters of Files, Stdout and Diff
\* are built from the EmitterConfig passed in, those of Json, ModifiedLines
\* and Checkstyle are built by default() and receive none of it.
C10_Factory ==
    pc = "made" =>
        /\ emitter.kind \in EmitterKinds
        /\ OnlyThisMode
        /\ config.emit_mode \in {"Files", "Stdout", "Diff"} =>
              emitter.seeded /\ emitter.config = config
        /\ config.emit_mode \in {"Json", "ModifiedLines", "Checkstyle"} =>
              ~emitter.seeded /\ emitter.config = NoConfig

\* The Json emitter made from a configuration that is not the default one.
C10_Witness ==
    /\ pc = "made"
    /\ config.emit_mode = "Json"
    /\ config.color = "Never"
    /\ config.print_filename
    /\ emitter.kind = "JsonEmitter"

(***************************************************************************)
(* A call of EmitMode::from_str alone, over the tokens.                    *)
(***************************************************************************)
InitFromStr ==
    /\ report = <<>>
    /\ config = DefaultEmitterConfig
    /\ parse_sess = NoSess
    /\ disk = [p \in Paths |-> "lf"]
    /\ pc = "parse"
    /\ idx = 0
    /\ emitter = NoEmitter
    /\ factoryCalls = 0
    /\ has_diff = FALSE
    /\ calls = <<>>
    /\ resolved = <<>>
    /\ diskReads = <<>>
    /\ diskWrites = <<>>
    /\ result = NoResult
    /\ token \in Tokens
    /\ parsed = NoParse

FromStrCall ==
    /\ pc = "parse"
    /\ parsed' = from_str(token)
    /\ pc' = "parsed"
    /\ UNCHANGED <<report, config, parse_sess, disk, idx, emitter, factoryCalls,
                   has_diff, calls, resolved, diskReads, diskWrites, result,
                   token>>

NextFromStr == FromStrCall

SpecFromStr == InitFromStr /\ [][NextFromStr]_vars

\* The token an unknown-mode message carries between its back quotes.
CarriedToken(msg) ==
    SubSeq(msg, Len(UnknownPrefix) + 1, Len(msg) - Len(UnknownSuffix))

\* C11: from_str returns Ok(Files), Ok(Stdout), Ok(Checkstyle), Ok(Json) for
\* exactly the tokens files, stdout, checkstyle, json; for every other token,
\* among them diff, modifiedlines and every other spelling of the four, it
\* returns the unknown-emit-mode error, whose message carries the token; it
\* never returns ModifiedLines or Diff.
C11_FromStr ==
    pc = "parsed" =>
        /\ token = W_files => parsed = OkMode("Files")
        /\ token = W_stdout => parsed = OkMode("Stdout")
        /\ token = W_checkstyle => parsed = OkMode("Checkstyle")
        /\ token = W_json => parsed = OkMode("Json")
        /\ token \notin {W_files, W_stdout, W_checkstyle, W_json} =>
              /\ parsed.tag = "Err"
              /\ Len(parsed.message) = Len(UnknownPrefix) + Len(token) + Len(UnknownSuffix)
              /\ SubSeq(parsed.message, 1, Len(UnknownPrefix)) = UnknownPrefix
              /\ CarriedToken(parsed.message) = token
        /\ parsed.mode \notin {"ModifiedLines", "Diff"}

\* "Files", with a capital, was refused with a message that carries it.
C11_Witness ==
    /\ pc = "parsed"
    /\ token = UpperFirst(W_files)
    /\ parsed.tag = "Err"
    /\ CarriedToken(parsed.message) = <<"F", "i", "l", "e", "s">>

\* Step 1 of the resolution applies: a forced newline style on a real path.
Overridden == TheResult.newline_style # "Auto" /\ TheFile # Stdin
TheSnippet == TheResult.original_text
TheSourceMap == get_original_snippet(parse_sess, TheFile)

\* C12: when newline_style is Auto or the file is Stdin, the original text is
\* the cached snippet if there is one, whatever the parse session and the disk
\* hold; without a cached snippet it is what the parse session returns, if it
\* returns something; the disk is read only when there is neither, and it is
\* read for no other entry.
C12_PriorityChain ==
    (Returned /\ ~Overridden) =>
        /\ TheSnippet # None =>
              /\ resolved[1].via = "snippet"
              /\ resolved[1].text = TheSnippet
        /\ (TheSnippet = None /\ TheSourceMap # None) =>
              /\ resolved[1].via = "source_map"
              /\ resolved[1].text = TheSourceMap
        /\ (TheSnippet = None /\ TheSourceMap = None) =>
              /\ resolved[1].via = "fallback"
              /\ resolved[1].tag = "Ok" =>
                    /\ Len(diskReads) = 1
                    /\ diskReads[1].path = TheFile
                    /\ resolved[1].text = diskReads[1].text
        /\ diskReads # <<>> => (TheSnippet = None /\ TheSourceMap = None)
        /\ \A i \in 1..Len(calls) : calls[i].view.original_text = resolved[1].text

\* The cached snippet, the source map and the disk hold three different
\* texts, and the emitter was handed the cached snippet.
C12_Witness ==
    /\ pc = "returned"
    /\ TheFile = "a.rs"
    /\ TheResult.newline_style = "Auto"
    /\ TheSnippet = "lf"
    /\ TheSourceMap = "lf-map"
    /\ disk[TheFile] = "crlf"
    /\ Len(calls) = 1
    /\ calls[1].view.original_text = "lf"
    /\ diskReads = <<>>

ReadFailed == \E i \in 1..Len(diskReads) : diskReads[i].text = ReadErr

\* C13: when the read of the file fails, in the forced read of a newline
\* override or in the last-resort read, write_file returns the I/O error and
\* makes no emit_formatted_file call; every view an emitter receives holds a
\* whole original text.
C13_ReadFailureIsIoError ==
    /\ (Returned /\ ReadFailed) =>
          /\ pc = "returned"
          /\ result = Err(IoError)
          /\ resolved[1].tag = "Err"
          /\ calls = <<>>
    /\ \A i \in 1..Len(calls) :
          calls[i].view.original_text \in Texts \cup SourceMapSnippets

\* The forced read of a file with a newline override failed, although a
\* cached snippet was there.
C13_Witness ==
    /\ pc = "returned"
    /\ TheFile = "a.rs"
    /\ Overridden
    /\ TheSnippet = "lf"
    /\ disk[TheFile] = ReadErr
    /\ result = Err(IoError)
    /\ calls = <<>>

ReadsOf(f) == {i \in 1..Len(diskReads) : diskReads[i].path = f}
FromDisk == {i \in 1..Len(resolved) :
                resolved[i].via \in {"override", "fallback"} /\ resolved[i].tag # "Panic"}

\* C14: a run resolves the original text of each file it gets to once, in
\* report order, and of every file when it returns Ok; it reads no file twice,
\* makes no more reads than resolutions, exactly one for each resolution that
\* went to the disk, and none for a file served from the cached snippet or
\* the source map.
C14_OneResolutionOneRead ==
    /\ Len(resolved) <= Len(report)
    /\ \A i \in 1..Len(resolved) :
          /\ resolved[i].idx = i
          /\ resolved[i].filename = report[i].filename
          /\ resolved[i].via \in {"snippet", "source_map"} =>
                ReadsOf(resolved[i].filename) = {}
    /\ pc = "done" => Len(resolved) = Len(report)
    /\ Len(diskReads) <= Len(resolved)
    /\ Len(diskReads) = Cardinality(FromDisk)
    /\ \A f \in Paths : Cardinality(ReadsOf(f)) <= 1

\* A finished run over two files: the first served from its cached snippet,
\* the second read from the disk, one read in all.
C14_Witness ==
    /\ pc = "done"
    /\ Len(resolved) = 2
    /\ resolved[1].via = "snippet"
    /\ resolved[2].via = "fallback"
    /\ Len(diskReads) = 1
    /\ diskReads[1].path = report[2].filename

\* The text the read of file f returned.
TextRead(f) == diskReads[CHOOSE i \in ReadsOf(f) : TRUE].text

\* C15: emit_format_report passes no parse session, so no resolution of a
\* run is served by the source map: an entry with a cached snippet and no
\* newline override gets the snippet, every other entry goes to a disk read,
\* and a resolved original text is either the entry's snippet or the text
\* read from its file.
C15_NoSourceMapInRun ==
    \A i \in 1..Len(resolved) :
        LET e == report[resolved[i].idx] IN
        /\ resolved[i].via # "source_map"
        /\ e.format_result.original_text = None =>
              resolved[i].via \in {"override", "fallback"}
        /\ resolved[i].via = "snippet" =>
              resolved[i].text = e.format_result.original_text
        /\ (resolved[i].via \in {"override", "fallback"} /\ resolved[i].tag = "Ok") =>
              /\ ReadsOf(e.filename) # {}
              /\ resolved[i].text = TextRead(e.filename)

\* A real path without cached snippet and without newline override was read
\* from the disk and emitted.
C15_Witness ==
    /\ Len(resolved) = 1
    /\ report[1].filename = "a.rs"
    /\ report[1].format_result.original_text = None
    /\ report[1].format_result.newline_style = "Auto"
    /\ resolved[1].via = "fallback"
    /\ resolved[1].tag = "Ok"
    /\ diskReads = <<[path |-> "a.rs", text |-> resolved[1].text]>>
    /\ Len(EmitCalls) = 1

\* The view of call c is made of entry c.idx of the report and of the
\* original text resolved for that entry.
ViewOfItsEntry(c) ==
    LET e == report[c.idx] IN
    /\ c.view.filename = e.filename
    /\ c.view.formatted_text = e.format_result.formatted_text
    /\ c.idx \in 1..Len(resolved)
    /\ resolved[c.idx].filename = e.filename
    /\ resolved[c.idx].tag = "Ok"
    /\ c.view.original_text = resolved[c.idx].text
    /\ resolved[c.idx].via = "snippet" =>
          c.view.original_text = e.format_result.original_text
    /\ resolved[c.idx].via \in {"override", "fallback"} =>
          c.view.original_text = TextRead(e.filename)

C16_Views == \A i \in 1..Len(EmitCalls) : ViewOfItsEntry(EmitCalls[i])

\* C16: the view of every emit_formatted_file call holds the file name and
\* the formatted text of the report entry it was made for, and the original
\* text resolved for that entry, never those of another entry; no step of the
\* run changes the report.
C16_ViewOfOwnEntry == []C16_Views /\ [][report' = report]_vars

\* A finished run over two files with different formatted texts and
\* different original texts.
C16_Witness ==
    /\ pc = "done"
    /\ Len(EmitCalls) = 2
    /\ report[1].format_result.formatted_text = "lf"
    /\ report[2].format_result.formatted_text = "crlf"
    /\ EmitCalls[1].view.original_text = "crlf"
    /\ EmitCalls[2].view.original_text = "lf"
    /\ EmitCalls[1].view.formatted_text = "lf"
    /\ EmitCalls[2].view.formatted_text = "crlf"

====
